---- MODULE Spec2Model ----
(***************************************************************************)
(* The blog-post CRUD service of src/main.py over the "blogpost"           *)
(* collection: the handlers list_posts, get_post, create_post, update_post *)
(* and delete_post, the payload models of src/schemas.py, and the          *)
(* serializer serialize_post.                                              *)
(*                                                                         *)
(* Values.  A field value that may be None is a tuple: Null is <<>> and a  *)
(* value v is <<v>>, so an absent key, an explicit null and a zero value   *)
(* are three different things.  A datetime is an integer; the clock `now`  *)
(* starts at 1 and a caller-supplied datetime is 0 (a time in the past).   *)
(* A document is a function from its keys to such values; a request body  *)
(* is a function whose DOMAIN is the set of keys the body holds.           *)
(*                                                                         *)
(* Concurrency.  Each store call (insert_one, update_one, find_one,        *)
(* delete_one, find) is one atomic step.  create_post and update_post make *)
(* two store calls, the write and the re-fetch, and other requests may be  *)
(* served between them: `pending` holds the handlers that have written and *)
(* not yet re-fetched.                                                     *)
(***************************************************************************)
EXTENDS Integers, Sequences, FiniteSets, TLC

VARIABLES
    posts,      \* the collection: stored ObjectId -> document
    nextOid,    \* the ObjectId the store generates on the next insert
    now,        \* the clock read by datetime.utcnow()
    pending,    \* handlers between their write and their re-fetch, each with
                \* its path parameter and the ObjectId it wrote
    resp        \* the response of the request that ended last

vars == <<posts, nextOid, now, pending, resp>>

\* ---------------------------------------------------------------- bounds

\* ObjectIds the store hands out: 1..MaxPosts.
MaxPosts == 2
\* The clock stops requests that read it once it shows MaxTime.
MaxTime == 4
\* Handlers that may sit between their write and their re-fetch.
MaxInFlight == 2

\* --------------------------------------------------------------- values

Null == <<>>
Some(v) == <<v>>

\* Python truthiness of an Optional[bool]: None and False are falsy.
TruthyBool(v) == v = Some(TRUE)

\* Python truthiness of an Optional[datetime]: None is falsy, every
\* datetime is truthy.
TruthyTime(v) == v # Null

EmptyBody == [k \in {} |-> Null]

\* The key k with one of the values vals, or the key left out.
Opt(k, vals) == {EmptyBody} \cup {k :> v : v \in vals}

\* dict.get(k, default)
DocGet(doc, k, default) == IF k \in DOMAIN doc THEN doc[k] ELSE default

\* ------------------------------------------------------------- schemas

\* Field(..., min_length=3) of title and slug.
MinLength == 3

RequiredFields == {"title", "slug", "content", "author"}

\* The fields of BlogPost, which are also those of BlogPostUpdate.
PostFields ==
    RequiredFields \cup
    {"excerpt", "cover_image_url", "tags", "published", "published_at"}

\* The fields BlogPost declares without Optional: null is rejected for them.
NonNullable == RequiredFields \cup {"tags", "published"}

\* The defaults BlogPost gives the fields a create body leaves out.
BlogPostDefaults ==
    [k \in PostFields \ RequiredFields |->
        CASE k = "tags" -> Some(<<>>)
          [] k = "published" -> Some(FALSE)
          [] OTHER -> Null]

\* Validation of a create body by BlogPost.
BlogPostValid(body) ==
    /\ RequiredFields \subseteq DOMAIN body
    /\ \A k \in DOMAIN body \cap NonNullable : body[k] # Null
    /\ Len(body["title"][1]) >= MinLength
    /\ Len(body["slug"][1]) >= MinLength

\* payload.model_dump() of a validated create body: every field, the
\* defaults for those left out.
ModelDump(body) ==
    [k \in PostFields |-> IF k \in DOMAIN body THEN body[k] ELSE BlogPostDefaults[k]]

\* Mutant of ModelDumpUnset: model_dump() without exclude_unset, which
\* gives every field the body leaves out as None.
ModelDumpUnset_All(body) ==
    [k \in PostFields |-> IF k \in DOMAIN body THEN body[k] ELSE Null]

\* payload.model_dump(exclude_unset=True) of an update body: the fields the
\* body holds, an explicit null included.
ModelDumpUnset(body) == [k \in DOMAIN body |-> body[k]]

\* ------------------------------------------------------------ ObjectId

\* str(ObjectId): the 24-digit hex form, here tagged with the id it encodes.
ObjectIdStr(oid) == <<"hex", oid>>

\* Whether ObjectId(post_id) succeeds.
IsObjectIdStr(s) == s[1] = "hex"

\* ObjectId(post_id) of a well-formed string.
ObjectId(s) == s[2]

\* The post_id strings requests carry: the hex form of every id the store
\* can hand out, of one it never hands out, and one that is no hex form.
PostIdStrings ==
    {ObjectIdStr(o) : o \in 1..(MaxPosts + 1)} \cup {<<"text", 0>>}

\* ------------------------------------------------------------ responses

\* A response, with the request it answers (req: the path parameter, the
\* body and the query parameters the operation takes, in that order; the
\* answer of a re-fetch is recorded without the body) and whether a store
\* call of the handler raised (storeError).
Response(op, req, status, detail, body, storeError) ==
    [op |-> op, req |-> req, status |-> status, detail |-> detail, body |-> body,
     storeError |-> storeError]

NoResponse == Response("none", <<>>, 0, "", <<>>, FALSE)

\* -------------------------------------------------------- serialization

OutStrFields == {"title", "slug", "content", "author"}

\* serialize_post builds a BlogPostOut: its str, List[str] and bool fields
\* refuse None.
BlogPostOutValid(doc) ==
    /\ \A k \in OutStrFields : DocGet(doc, k, Null) # Null
    /\ DocGet(doc, "tags", Some(<<>>)) # Null
    /\ DocGet(doc, "published", Some(FALSE)) # Null

serialize_post(oid, doc) ==
    [id |-> ObjectIdStr(oid),
     title |-> DocGet(doc, "title", Null),
     slug |-> DocGet(doc, "slug", Null),
     excerpt |-> DocGet(doc, "excerpt", Null),
     content |-> DocGet(doc, "content", Null),
     author |-> DocGet(doc, "author", Null),
     cover_image_url |-> DocGet(doc, "cover_image_url", Null),
     tags |-> DocGet(doc, "tags", Some(<<>>)),
     published |-> DocGet(doc, "published", Some(FALSE)),
     published_at |-> DocGet(doc, "published_at", Null),
     created_at |-> DocGet(doc, "created_at", Null),
     updated_at |-> DocGet(doc, "updated_at", Null)]

\* The response of a handler that ends with serialize_post(find_one(oid)):
\* a document that is gone (find_one gives None) or that BlogPostOut
\* refuses raises, which the framework reports as 500.
SerializedResponse(op, req, oid) ==
    IF oid \in DOMAIN posts /\ BlogPostOutValid(posts[oid])
    THEN Response(op, req, 200, "", <<serialize_post(oid, posts[oid])>>, FALSE)
    ELSE Response(op, req, 500, "Internal Server Error", <<>>, FALSE)

\* The response to a request whose store call raised outside any try.
StoreErrorResponse(op, req) ==
    Response(op, req, 500, "Internal Server Error", <<>>, TRUE)

\* No response is on its way to a client.
Idle == resp.op = "none"

Init ==
    /\ posts = EmptyBody
    /\ nextOid = 1
    /\ now = 1
    /\ pending = <<>>
    /\ resp = NoResponse

\* ------------------------------------------------------------ get_post

get_post(post_id, storeFails) ==
    /\ Idle
    /\ resp' =
        IF ~IsObjectIdStr(post_id)
        THEN Response("get", <<post_id>>, 400, "Invalid post id", <<>>, FALSE)
        ELSE IF storeFails
        THEN Response("get", <<post_id>>, 400, "Invalid post id", <<>>, TRUE)
        ELSE IF ObjectId(post_id) \notin DOMAIN posts
        THEN Response("get", <<post_id>>, 404, "Post not found", <<>>, FALSE)
        ELSE SerializedResponse("get", <<post_id>>, ObjectId(post_id))
    /\ UNCHANGED <<posts, nextOid, now, pending>>

\* ---------------------------------------------------------- create_post

\* Mutant of StampPublishedAt: stamps every published post, a supplied
\* published_at overwritten.
StampPublishedAt_Always(data, t) ==
    IF TruthyBool(DocGet(data, "published", Null))
    THEN [data EXCEPT !["published_at"] = Some(t)]
    ELSE data

\* if data.get("published") and not data.get("published_at"):
\*     data["published_at"] = now
StampPublishedAt(data, t) ==
    IF TruthyBool(DocGet(data, "published", Null))
       /\ ~TruthyTime(DocGet(data, "published_at", Null))
    THEN [data EXCEPT !["published_at"] = Some(t)]
    ELSE data

\* create_document("blogpost", data): insert_one of the data as given, the
\* store generating the identifier; no created_at is stamped.
create_document(data) ==
    /\ posts' = posts @@ (nextOid :> data)
    /\ nextOid' = nextOid + 1

\* The handler up to and including the insert; the re-fetch is Refetch.
create_post(body, storeFails) ==
    /\ Idle
    /\ IF ~BlogPostValid(body)
       THEN /\ resp' = Response("create", <<body>>, 422, "Validation error", <<>>, FALSE)
            /\ UNCHANGED <<posts, nextOid, now, pending>>
       ELSE /\ now < MaxTime
            /\ now' = now + 1
            /\ IF storeFails
               THEN /\ resp' = StoreErrorResponse("create", <<body>>)
                    /\ UNCHANGED <<posts, nextOid, pending>>
               ELSE /\ nextOid <= MaxPosts
                    /\ Len(pending) < MaxInFlight
                    /\ create_document(StampPublishedAt(ModelDump(body), now))
                    /\ pending' = Append(pending, [op |-> "create", req |-> <<>>, oid |-> nextOid])
                    /\ UNCHANGED resp

\* ---------------------------------------------------------- update_post

\* dict.setdefault(k, v)
SetDefault(d, k, v) == IF k \in DOMAIN d THEN d ELSE d @@ (k :> v)

\* Mutant of PublishDefaults: published_at is not cleared on un-publishing.
PublishDefaults_NeverClears(update_data, t) ==
    IF "published" \in DOMAIN update_data /\ TruthyBool(update_data["published"])
    THEN SetDefault(update_data, "published_at", Some(t))
    ELSE update_data

\* "If toggling publish state, manage published_at"
PublishDefaults(update_data, t) ==
    LET d1 == IF "published" \in DOMAIN update_data /\ TruthyBool(update_data["published"])
              THEN SetDefault(update_data, "published_at", Some(t))
              ELSE update_data
    IN  IF "published" \in DOMAIN d1 /\ d1["published"] = Some(FALSE)
        THEN SetDefault(d1, "published_at", Null)
        ELSE d1

\* update_data["updated_at"] = datetime.utcnow()
StampUpdatedAt(update_data, t) ==
    [k \in DOMAIN update_data \cup {"updated_at"} |->
        IF k = "updated_at" THEN Some(t) ELSE update_data[k]]

\* Mutant of NoData: the empty-body check is missing.
NoData_Never(update_data) == FALSE

\* if not update_data
NoData(update_data) == DOMAIN update_data = {}

\* The document after {"$set": set}: the named keys written, the rest kept.
ApplySet(doc, set) ==
    [k \in DOMAIN doc \cup DOMAIN set |-> IF k \in DOMAIN set THEN set[k] ELSE doc[k]]

\* Mutant of update_one: update_one(..., upsert=True), which inserts the
\* set under an id that is not stored.
update_one_Upsert(oid, set) ==
    posts' = IF oid \in DOMAIN posts
             THEN [posts EXCEPT ![oid] = ApplySet(posts[oid], set)]
             ELSE posts @@ (oid :> set)

\* update_one({"_id": oid}, {"$set": set}); matched_count is 1 iff oid is stored.
update_one(oid, set) ==
    posts' = IF oid \in DOMAIN posts
             THEN [posts EXCEPT ![oid] = ApplySet(posts[oid], set)]
             ELSE posts

\* The handler up to and including update_one; the re-fetch is Refetch.
update_post(post_id, body, storeFails) ==
    /\ Idle
    /\ IF ~IsObjectIdStr(post_id)
       THEN /\ resp' = Response("update", <<post_id, body>>, 400, "Invalid post id", <<>>, FALSE)
            /\ UNCHANGED <<posts, nextOid, now, pending>>
       ELSE IF NoData(ModelDumpUnset(body))
       THEN /\ resp' = Response("update", <<post_id, body>>, 400, "No data to update", <<>>, FALSE)
            /\ UNCHANGED <<posts, nextOid, now, pending>>
       ELSE /\ now < MaxTime
            /\ now' = now + 1
            /\ UNCHANGED nextOid
            /\ IF storeFails
               THEN /\ resp' = StoreErrorResponse("update", <<post_id, body>>)
                    /\ UNCHANGED <<posts, pending>>
               ELSE LET oid == ObjectId(post_id)
                        set == StampUpdatedAt(PublishDefaults(ModelDumpUnset(body), now), now)
                    IN  /\ update_one(oid, set)
                        /\ IF oid \notin DOMAIN posts
                           THEN /\ resp' = Response("update", <<post_id, body>>, 404, "Post not found", <<>>, FALSE)
                                /\ UNCHANGED pending
                           ELSE /\ Len(pending) < MaxInFlight
                                /\ pending' = Append(pending, [op |-> "update", req |-> <<post_id>>, oid |-> oid])
                                /\ UNCHANGED resp

\* ------------------------------------------------- the re-fetch of both

\* doc = db["blogpost"].find_one({"_id": oid}); return serialize_post(doc)
Refetch(i, storeFails) ==
    /\ Idle
    /\ i \in 1..Len(pending)
    /\ resp' = IF storeFails
               THEN StoreErrorResponse(pending[i].op, pending[i].req)
               ELSE SerializedResponse(pending[i].op, pending[i].req, pending[i].oid)
    /\ pending' = [j \in 1..(Len(pending) - 1) |->
                      IF j < i THEN pending[j] ELSE pending[j + 1]]
    /\ UNCHANGED <<posts, nextOid, now>>

\* ---------------------------------------------------------- delete_post

delete_post(post_id, storeFails) ==
    /\ Idle
    /\ IF ~IsObjectIdStr(post_id)
       THEN /\ resp' = Response("delete", <<post_id>>, 400, "Invalid post id", <<>>, FALSE)
            /\ UNCHANGED <<posts, nextOid, now, pending>>
       ELSE IF storeFails
       THEN /\ resp' = StoreErrorResponse("delete", <<post_id>>)
            /\ UNCHANGED <<posts, nextOid, now, pending>>
       ELSE LET oid == ObjectId(post_id)
            IN  /\ posts' = [o \in DOMAIN posts \ {oid} |-> posts[o]]
                /\ resp' = IF oid \in DOMAIN posts
                           THEN Response("delete", <<post_id>>, 200, "success", <<>>, FALSE)
                           ELSE Response("delete", <<post_id>>, 404, "Post not found", <<>>, FALSE)
                /\ UNCHANGED <<nextOid, now, pending>>

\* ----------------------------------------------------------- list_posts

\* The filter_query built from the query parameters: `published` when it is
\* not None, `tag` when it is truthy (a non-empty string).
MatchesFilter(doc, published, tag) ==
    /\ published # Null => DocGet(doc, "published", Null) = published
    /\ (tag # Null /\ tag # Some("")) =>
          LET tags == DocGet(doc, "tags", Null)
          IN  tags # Null /\ \E j \in 1..Len(tags[1]) : tags[1][j] = tag[1]

\* The sort key of .sort("created_at", -1): a missing or null created_at
\* sorts below every datetime.
SortKey(doc) ==
    LET c == DocGet(doc, "created_at", Null) IN IF c = Null THEN -1 ELSE c[1]

\* The orders the sorted cursor may yield the ids S in: created_at
\* descending, ties in any order.
SortedOrders(S) ==
    {q \in [1..Cardinality(S) -> S] :
        /\ \A a, b \in 1..Cardinality(S) : a # b => q[a] # q[b]
        /\ \A a, b \in 1..Cardinality(S) :
              a < b => SortKey(posts[q[a]]) >= SortKey(posts[q[b]])}

\* How many of n matching documents a cursor with .limit(limit) yields:
\* the driver reads 0 as "no limit" and a negative limit as its absolute
\* value.
CursorLimit(limit, n) ==
    LET cap == IF limit < 0 THEN -limit ELSE limit
    IN  IF limit = 0 \/ n <= cap THEN n ELSE cap

list_posts(published, tag, limit, storeFails) ==
    /\ Idle
    /\ UNCHANGED <<posts, nextOid, now, pending>>
    /\ IF storeFails
       THEN resp' = StoreErrorResponse("list", <<published, tag, limit>>)
       ELSE LET S == {o \in DOMAIN posts : MatchesFilter(posts[o], published, tag)}
            IN  \E q \in SortedOrders(S) :
                  LET docs == SubSeq(q, 1, CursorLimit(limit, Cardinality(S)))
                  IN  resp' =
                        IF \A j \in 1..Len(docs) : BlogPostOutValid(posts[docs[j]])
                        THEN Response("list", <<published, tag, limit>>, 200, "",
                                 [j \in 1..Len(docs) |-> serialize_post(docs[j], posts[docs[j]])],
                                 FALSE)
                        ELSE Response("list", <<published, tag, limit>>, 500, "Internal Server Error", <<>>, FALSE)

\* ------------------------------------------------------------ framework

\* The framework hands the response to the client; handlers are modelled
\* as starting their next store call after that.
Deliver ==
    /\ ~Idle
    /\ resp' = NoResponse
    /\ UNCHANGED <<posts, nextOid, now, pending>>

\* ------------------------------------------------------------- requests

\* Create bodies: a title below and at the minimum length, and every
\* combination of published and published_at left out or given.
CreateBodies ==
    {[title |-> Some(t), slug |-> Some("hi-there"), content |-> Some("body"),
      author |-> Some("Jo")] @@ a @@ b :
        t \in {"Hi", "Hi There"},
        a \in Opt("published", {Some(TRUE), Some(FALSE)}),
        b \in Opt("published_at", {Null, Some(0)})}

\* Update bodies: every combination of published and published_at (left
\* out, null or given), another field alone (a required string, an optional
\* string, the tag list; null or given), and published together with
\* another field.
PublishBodies ==
    {a @@ b : a \in Opt("published", {Null, Some(TRUE), Some(FALSE)}),
              b \in Opt("published_at", {Null, Some(0)})}

OtherBodies ==
    {"title" :> v : v \in {Null, Some("new")}}
    \cup {"excerpt" :> v : v \in {Null}}
    \cup {"tags" :> v : v \in {Null, Some(<<"bar">>)}}

UpdateBodies ==
    PublishBodies \cup OtherBodies
    \cup {[published |-> Some(TRUE), title |-> Some("new")],
          [published |-> Some(FALSE), tags |-> Null]}

\* Query parameters of list_posts; 50 is the default limit.
PublishedParams == {Null, Some(TRUE), Some(FALSE)}
TagParams == {Null, Some(""), Some("bar")}
LimitParams == {0, 1, 50}

\* The store answers every call.  list_posts writes nothing and is left to
\* SpecList.
Next ==
    \/ \E s \in PostIdStrings : get_post(s, FALSE)
    \/ \E b \in CreateBodies : create_post(b, FALSE)
    \/ \E s \in PostIdStrings, b \in UpdateBodies : update_post(s, b, FALSE)
    \/ \E i \in 1..MaxInFlight : Refetch(i, FALSE)
    \/ \E s \in PostIdStrings : delete_post(s, FALSE)
    \/ Deliver

Spec == Init /\ [][Next]_vars

\* The same with list_posts.
NextList ==
    \/ \E s \in PostIdStrings : get_post(s, FALSE)
    \/ \E b \in CreateBodies : create_post(b, FALSE)
    \/ \E s \in PostIdStrings, b \in UpdateBodies : update_post(s, b, FALSE)
    \/ \E i \in 1..MaxInFlight : Refetch(i, FALSE)
    \/ \E s \in PostIdStrings : delete_post(s, FALSE)
    \/ \E p \in PublishedParams, t \in TagParams, l \in LimitParams :
          list_posts(p, t, l, FALSE)
    \/ Deliver

SpecList == Init /\ [][NextList]_vars

\* Every operation, where a store call may raise.
NextFault ==
    \/ \E s \in PostIdStrings, f \in BOOLEAN : get_post(s, f)
    \/ \E b \in CreateBodies, f \in BOOLEAN : create_post(b, f)
    \/ \E s \in PostIdStrings, b \in UpdateBodies, f \in BOOLEAN : update_post(s, b, f)
    \/ \E i \in 1..MaxInFlight, f \in BOOLEAN : Refetch(i, f)
    \/ \E s \in PostIdStrings, f \in BOOLEAN : delete_post(s, f)
    \/ \E p \in PublishedParams, t \in TagParams, l \in LimitParams, f \in BOOLEAN :
          list_posts(p, t, l, f)
    \/ Deliver

SpecFault == Init /\ [][NextFault]_vars

\* ----------------------------------------------------------------- claims

\* The handler that wrote in this step, if one did: writing handlers join
\* `pending` at its end.
Wrote(op) ==
    /\ Len(pending') = Len(pending) + 1
    /\ pending'[Len(pending')].op = op

Writer == pending'[Len(pending')]

\* This step is update_post with body b writing a stored post.
UpdateWrote(b) ==
    /\ Wrote("update")
    /\ Writer.oid \in DOMAIN posts
    /\ update_post(Writer.req[1], b, FALSE)

\* C1: an update of an existing post that supplies `published`: with
\* published=true and no published_at in the request the stored
\* published_at becomes the current time; with published=false and no
\* published_at it becomes null; with published_at in the request (null
\* included, whatever published is) it becomes the supplied value.
C1_UpdatePublishedAt ==
    [][Wrote("update") =>
          \A b \in UpdateBodies :
             (UpdateWrote(b) /\ "published" \in DOMAIN b) =>
                LET after == posts'[ObjectId(Writer.req[1])]
                IN  /\ "published_at" \in DOMAIN after
                    /\ "published_at" \in DOMAIN b =>
                          after["published_at"] = b["published_at"]
                    /\ ("published_at" \notin DOMAIN b /\ b["published"] = Some(TRUE)) =>
                          after["published_at"] = Some(now)
                    /\ ("published_at" \notin DOMAIN b /\ b["published"] = Some(FALSE)) =>
                          after["published_at"] = Null]_vars

\* An update handler has written and not yet re-fetched a post that it
\* published and whose published_at it stamped with the time of the update.
C1_Witness ==
    \E i \in 1..Len(pending) :
        /\ pending[i].op = "update"
        /\ pending[i].oid \in DOMAIN posts
        /\ LET d == posts[pending[i].oid]
           IN  /\ "updated_at" \in DOMAIN d
               /\ d["published"] = Some(TRUE)
               /\ d["published_at"] = d["updated_at"]

\* A create body gives a published_at when it holds a datetime for it; a
\* null is what BlogPost fills in for a missing one.
GivesPublishedAt(b) == "published_at" \in DOMAIN b /\ b["published_at"] # Null

\* C2: a valid create payload: published=true without a published_at gives
\* the created post the request time; published false (or left out) gives
\* null unless a published_at was supplied; a supplied published_at is
\* stored as supplied whatever published is.
C2_CreatePublishedAt ==
    [][Wrote("create") =>
          \A b \in CreateBodies :
             create_post(b, FALSE) =>
                LET after == posts'[Writer.oid]
                    pub == "published" \in DOMAIN b /\ b["published"] = Some(TRUE)
                IN  /\ BlogPostValid(b)
                    /\ Writer.oid \notin DOMAIN posts
                    /\ (pub /\ ~GivesPublishedAt(b)) => after["published_at"] = Some(now)
                    /\ (~pub /\ ~GivesPublishedAt(b)) => after["published_at"] = Null
                    /\ GivesPublishedAt(b) => after["published_at"] = b["published_at"]]_vars

\* A create handler has inserted and not yet re-fetched a published post
\* whose published_at is a clock reading, not a supplied datetime.
C2_Witness ==
    \E i \in 1..Len(pending) :
        /\ pending[i].op = "create"
        /\ pending[i].oid \in DOMAIN posts
        /\ LET d == posts[pending[i].oid]
           IN  /\ "updated_at" \notin DOMAIN d
               /\ d["published"] = Some(TRUE)
               /\ d["published_at"] # Null
               /\ d["published_at"][1] >= 1

\* The keys an update may write without their being in the body.
StampedKeys == {"updated_at", "published_at"}

\* C3: a successful update of post p with body fields F writes every field
\* of F as supplied (null included), keeps every other stored field except
\* updated_at (set to the current time) and published_at (which changes
\* only if `published` is in F), keeps p's id and leaves every other post
\* as it was.
C3_PartialUpdate ==
    [][Wrote("update") =>
          \A b \in UpdateBodies :
             UpdateWrote(b) =>
                LET oid == ObjectId(Writer.req[1])
                    before == posts[oid]
                    after == posts'[oid]
                IN  /\ DOMAIN b # {}
                    /\ Writer.oid = oid
                    /\ DOMAIN posts' = DOMAIN posts
                    /\ \A o \in DOMAIN posts \ {oid} : posts'[o] = posts[o]
                    /\ DOMAIN after = DOMAIN before \cup DOMAIN b \cup {"updated_at"}
                    /\ \A k \in DOMAIN b : after[k] = b[k]
                    /\ \A k \in DOMAIN before \ (DOMAIN b \cup StampedKeys) :
                          after[k] = before[k]
                    /\ after["updated_at"] = Some(now)
                    /\ ("published_at" \notin DOMAIN b /\ "published" \notin DOMAIN b) =>
                          after["published_at"] = before["published_at"]]_vars

\* Two posts are stored, an update handler has written a title and nothing
\* else of one of them, and the other has never been updated.
C3_Witness ==
    \E i \in 1..Len(pending) :
        /\ pending[i].op = "update"
        /\ pending[i].oid \in DOMAIN posts
        /\ LET d == posts[pending[i].oid]
           IN  /\ "updated_at" \in DOMAIN d
               /\ d["title"] = Some("new")
               /\ d["slug"] = Some("hi-there")
        /\ \E o \in DOMAIN posts \ {pending[i].oid} : "updated_at" \notin DOMAIN posts[o]

\* This step is the handler `op` answering the request resp'.req at once,
\* without a write that awaits its re-fetch.
Answered(op) ==
    /\ Idle
    /\ resp'.op = op
    /\ pending' = pending
    /\ CASE op = "get" -> get_post(resp'.req[1], FALSE)
         [] op = "delete" -> delete_post(resp'.req[1], FALSE)
         [] op = "update" -> update_post(resp'.req[1], resp'.req[2], FALSE)

\* What C4 asks of a request with post_id s answered in this step.
RejectsUnknownId(s) ==
    /\ ~IsObjectIdStr(s) => resp'.status = 400
    /\ (IsObjectIdStr(s) /\ ObjectId(s) \notin DOMAIN posts) => resp'.status = 404
    /\ (~IsObjectIdStr(s) \/ ObjectId(s) \notin DOMAIN posts) => posts' = posts

\* C4: get, update with a non-empty body, and delete answer 400 to a
\* post_id that does not parse and 404 to one that parses and is not
\* stored, and leave the collection as it was; an update that goes on to
\* its re-fetch has written a post that was stored.
C4_BadIdRejected ==
    [][/\ Answered("get") => RejectsUnknownId(resp'.req[1])
       /\ Answered("delete") => RejectsUnknownId(resp'.req[1])
       /\ (Answered("update") /\ DOMAIN resp'.req[2] # {}) =>
             RejectsUnknownId(resp'.req[1])
       /\ Wrote("update") =>
             /\ IsObjectIdStr(Writer.req[1])
             /\ ObjectId(Writer.req[1]) = Writer.oid
             /\ Writer.oid \in DOMAIN posts]_vars

\* An update with a body, of an id that is not stored, was answered 404
\* while a post is stored.
C4_Witness ==
    /\ resp.op = "update"
    /\ resp.status = 404
    /\ Len(resp.req) = 2
    /\ DOMAIN resp.req[2] # {}
    /\ DOMAIN posts # {}

\* C5: an update whose body holds no field, with a well-formed id, is
\* answered 400 and writes nothing, whether or not the id is stored; no
\* update with an empty body goes on to write.
C5_EmptyUpdateRejected ==
    [][/\ (Answered("update") /\ IsObjectIdStr(resp'.req[1]) /\ DOMAIN resp'.req[2] = {}) =>
             (resp'.status = 400 /\ posts' = posts)
       /\ Wrote("update") => ~update_post(Writer.req[1], EmptyBody, FALSE)]_vars

\* An empty update of a stored post was refused.
C5_Witness ==
    /\ resp.op = "update"
    /\ resp.status = 400
    /\ Len(resp.req) = 2
    /\ resp.req[2] = EmptyBody
    /\ IsObjectIdStr(resp.req[1])
    /\ ObjectId(resp.req[1]) \in DOMAIN posts

\* C6: whatever the store holds and the filters are, list_posts returns at
\* most `limit` posts (req[3] is the limit of the request).
C6_ListWithinLimit ==
    (resp.op = "list" /\ resp.status = 200) => Len(resp.body) <= resp.req[3]

\* C7: a store call that raises ends the request with a server error, never
\* with a 400 or a 404.
C7_StoreErrorIs5xx == resp.storeError => resp.status >= 500

\* C8: every stored post has a tags list, never null.
C8_TagsNeverNull ==
    \A o \in DOMAIN posts : DocGet(posts[o], "tags", Null) # Null

\* C9: an update with published=true and no published_at, of a post that is
\* already published with a published_at, leaves its published_at alone.
C9_FirstPublishOnly ==
    [][( /\ UpdateWrote([published |-> Some(TRUE)])
         /\ posts[Writer.oid]["published"] = Some(TRUE)
         /\ posts[Writer.oid]["published_at"] # Null ) =>
          posts'[Writer.oid]["published_at"] = posts[Writer.oid]["published_at"]]_vars

\* C10: the re-fetch that ends a create or an update answers with the
\* serialized post, also when another request was served between the write
\* and the re-fetch; stated for the states in which every stored post can
\* be serialized.
C10_RefetchSucceeds ==
    [][\A i \in 1..MaxInFlight :
          ( /\ Refetch(i, FALSE)
            /\ \A o \in DOMAIN posts : BlogPostOutValid(posts[o]) ) =>
             resp'.status = 200]_vars
====
